---------------------------- MODULE Spec2Model ----------------------------
(***************************************************************************)
(* The two FLAN-T5 summarization notebooks as state machines.              *)
(*                                                                         *)
(*   "single"       the single-accelerator notebook (samsum, flan-t5-base) *)
(*   "distributed"  training/deepseed-flan-t5-summarization.ipynb          *)
(*                                                                         *)
(* A run executes the code cells top to bottom.  The state is the kernel's *)
(* global namespace (env), the local disk, the launched training process   *)
(* and the position of the run (pc).  A raw text is the sequence of token  *)
(* ids the sentencepiece model gives it (no special tokens); the literal   *)
(* text "<pad>" is the one input that becomes the pad token id.            *)
(***************************************************************************)
EXTENDS Integers, Sequences, FiniteSets, TLC

VARIABLES nb, pc, env, disk, proc, hub, call

vars == <<nb, pc, env, disk, proc, hub, call>>

----------------------------------------------------------------------------
(* Bounds of the model *)

\* longest raw document, in tokens
MaxDocLen == 7
\* longest raw summary, in tokens (at least model_max_length, so that the
\* length analysis truncates the longest summaries as it does the documents)
MaxSumLen == 7
\* longest raw summary that starts with the literal text "<pad>", in tokens
MaxPadSumLen == 2
\* rows of the largest corpus (train plus test)
BigRows == 22
\* tokenizer.model_max_length (512 for the T5 tokenizers), scaled down
ModelMaxLength == 7
\* longest decoded text handed to postprocess_text, in characters
MaxTextLen == 4

----------------------------------------------------------------------------
(* The tokenizer (transformers, T5): ids, truncation, padding *)

PadTokenId == 0
EosTokenId == 1
IgnoreIndex == -100

DocToken(i) == 10 + i
SumToken(i) == 30 + i

\* a document of n ordinary tokens
Doc(n) == [i \in 1..n |-> DocToken(i)]
\* a summary of n ordinary tokens
Summary(n) == [i \in 1..n |-> SumToken(i)]
\* a summary of n tokens that starts with the literal text "<pad>"
PadSummary(n) == [i \in 1..n |-> IF i = 1 THEN PadTokenId ELSE SumToken(i)]

Documents == {Doc(n) : n \in 0..MaxDocLen}
Summaries == {Summary(n) : n \in 0..MaxSumLen} \cup {PadSummary(n) : n \in 1..MaxPadSumLen}
Examples == [text : Documents, summary : Summaries]

\* the example whose document and summary both have n ordinary tokens
Example(n) == [text |-> Doc(n), summary |-> Summary(n)]
\* the validation split that load_dataset returns next to train and test; no
\* cell reads its content, it holds the longest example
ValidationSplit == <<[text |-> Doc(MaxDocLen), summary |-> Summary(MaxSumLen)]>>
\* the smaller of the two raw length bounds
MaxExampleLen == IF MaxDocLen <= MaxSumLen THEN MaxDocLen ELSE MaxSumLen

\* corpora of one row per split: every pair of examples
OneRowCorpora ==
    {[train |-> <<tr>>, validation |-> ValidationSplit, test |-> <<te>>] :
        tr \in Examples, te \in Examples}

\* a corpus of rows examples, the first k of them Example(a) and the others
\* Example(b); the last two rows are the test split
StepCorpus(rows, k, a, b) ==
    LET all == [i \in 1..rows |-> IF i <= k THEN Example(a) ELSE Example(b)]
    IN  [train      |-> SubSeq(all, 1, rows - 2),
         validation |-> ValidationSplit,
         test       |-> SubSeq(all, rows - 1, rows)]
StepCorpora(rows) ==
    {StepCorpus(rows, k, a, b) :
        k \in 1..rows, a \in 0..MaxExampleLen, b \in 0..MaxExampleLen}

\* sizes of the corpora with several rows per split
CorpusSizes == {3, 5, BigRows}
\* what load_dataset(dataset_id) may return: cnn_dailymail in the distributed
\* notebook, samsum in the single-GPU notebook
Corpora(n) ==
    OneRowCorpora
        \cup UNION {StepCorpora(rows) :
                       rows \in IF n = "distributed" THEN CorpusSizes ELSE CorpusSizes \ {BigRows}}

PaddingModes == {"max_length", "longest", "do_not_pad"}

Max(S) == CHOOSE x \in S : \A y \in S : y <= x
Min2(a, b) == IF a <= b THEN a ELSE b
Range(s) == {s[i] : i \in DOMAIN s}

\* faulty variant of Encode: truncation left out
Encode_NoTruncation(ids, max_length) == ids \o <<EosTokenId>>

\* one text -> ids: truncation=True keeps room for the closing </s>
Encode(ids, max_length) ==
    IF Len(ids) + 1 > max_length
    THEN SubSeq(ids, 1, max_length - 1) \o <<EosTokenId>>
    ELSE ids \o <<EosTokenId>>

\* right padding of one row with the pad token up to n ids
PadTo(row, n) ==
    IF n > Len(row) THEN row \o [i \in 1..(n - Len(row)) |-> PadTokenId] ELSE row

\* faulty variant of PadTarget: max_length padding treated as "longest"
PadTarget_Longest(enc, max_length, padding) ==
    CASE padding \in {"max_length", "longest"} ->
            Max({Len(enc[i]) : i \in DOMAIN enc} \cup {0})
      [] OTHER -> 0

\* the length every row of the batch is padded to
PadTarget(enc, max_length, padding) ==
    CASE padding = "max_length" -> max_length
      [] padding = "longest"    -> Max({Len(enc[i]) : i \in DOMAIN enc} \cup {0})
      [] OTHER                  -> 0

\* variant of tokenizer with dynamic padding: every row is padded to the
\* longest row of its batch, whatever padding asks for
tokenizer_DynamicPadding(texts, max_length, padding) ==
    LET enc == [i \in DOMAIN texts |-> Encode(texts[i], max_length)]
        n   == Max({Len(enc[i]) : i \in DOMAIN enc} \cup {0})
    IN  [input_ids      |-> [i \in DOMAIN texts |-> PadTo(enc[i], n)],
         attention_mask |-> [i \in DOMAIN texts |->
                               [j \in 1..Len(PadTo(enc[i], n)) |->
                                   IF j <= Len(enc[i]) THEN 1 ELSE 0]]]

\* tokenizer(texts, max_length=..., padding=..., truncation=True)
tokenizer(texts, max_length, padding) ==
    LET enc == [i \in DOMAIN texts |-> Encode(texts[i], max_length)]
        n   == PadTarget(enc, max_length, padding)
    IN  [input_ids      |-> [i \in DOMAIN texts |-> PadTo(enc[i], n)],
         attention_mask |-> [i \in DOMAIN texts |->
                               [j \in 1..Len(PadTo(enc[i], n)) |->
                                   IF j <= Len(enc[i]) THEN 1 ELSE 0]]]

\* len(tokenizer(text, truncation=True)["input_ids"]): no max_length given,
\* so the tokenizer truncates to its model_max_length
TokenizedLength(text) == Len(Encode(text, ModelMaxLength))

----------------------------------------------------------------------------
(* Prompt construction *)

PromptStart == <<50>>
PromptEnd == <<51>>
SummarizePrefix == <<52>>

\* prompt_template.format(input=item)
prompt_template(item) == PromptStart \o item \o PromptEnd

\* the texts handed to the tokenizer as model input
inputs(n, texts) ==
    IF n = "distributed"
    THEN [i \in DOMAIN texts |-> prompt_template(texts[i])]
    ELSE [i \in DOMAIN texts |-> SummarizePrefix \o texts[i]]

----------------------------------------------------------------------------
(* Length analysis *)

RECURSIVE Insert(_, _)
Insert(x, s) ==
    IF s = <<>> THEN <<x>>
    ELSE IF x <= Head(s) THEN <<x>> \o s
    ELSE <<Head(s)>> \o Insert(x, Tail(s))

RECURSIVE Sorted(_)
Sorted(s) == IF s = <<>> THEN <<>> ELSE Insert(Head(s), Sorted(Tail(s)))

\* int(np.percentile(lengths, 95)): linear interpolation between the two
\* closest ranks, computed in floating point, then truncation to an integer.
\* The operator gives the set of results the floating-point computation can
\* produce: the truncated exact value, and also one less when the exact value
\* is a whole number reached through a fractional rank (0.95 * (n - 1) and
\* the interpolation are rounded, and the rounded result can fall just below
\* that whole number).
Percentile95(lengths) ==
    LET s     == Sorted(lengths)
        n     == Len(s)
        pos   == 95 * (n - 1)
        lo    == pos \div 100
        hi    == IF lo + 1 < n THEN lo + 1 ELSE lo
        exact == 100 * s[lo + 1] + (pos % 100) * (s[hi + 1] - s[lo + 1])
    IN  IF pos % 100 # 0 /\ s[hi + 1] # s[lo + 1] /\ exact % 100 = 0
        THEN {exact \div 100 - 1, exact \div 100}
        ELSE {exact \div 100}

\* variant of concatenate_datasets: the test split is left out
concatenate_datasets_TrainOnly(ds) == ds.train

\* concatenate_datasets([dataset["train"], dataset["test"]])
concatenate_datasets(ds) == ds.train \o ds.test

SourceLengths(ds) ==
    [i \in DOMAIN concatenate_datasets(ds) |-> TokenizedLength(concatenate_datasets(ds)[i].text)]
TargetLengths(ds) ==
    [i \in DOMAIN concatenate_datasets(ds) |-> TokenizedLength(concatenate_datasets(ds)[i].summary)]

\* prompt_lenght = len(tokenizer(prompt_template.format(input=""))["input_ids"])
PromptLength == TokenizedLength(prompt_template(<<>>))
MaxSampleLength == ModelMaxLength - PromptLength

\* faulty variant of MaxSourceLength: the cap at max_sample_length left out
MaxSourceLength_NoCap(n, ds) == Max(Range(SourceLengths(ds)))

MaxSourceLength(n, ds) ==
    IF n = "distributed"
    THEN Min2(Max(Range(SourceLengths(ds))), MaxSampleLength)
    ELSE Max(Range(SourceLengths(ds)))

\* variant of MaxTargetLength: the maximum in both notebooks
MaxTargetLength_Max(n, ds) == {Max(Range(TargetLengths(ds)))}

\* the values the length analysis can assign to max_target_length
MaxTargetLength(n, ds) ==
    IF n = "distributed"
    THEN Percentile95(TargetLengths(ds))
    ELSE {Max(Range(TargetLengths(ds)))}

----------------------------------------------------------------------------
(* preprocess_function *)

\* a batch as datasets.map(batched=True) passes it: one list per column
Batch(rows) == [text    |-> [i \in DOMAIN rows |-> rows[i].text],
                summary |-> [i \in DOMAIN rows |-> rows[i].summary]]

\* faulty variant of MaskLabel: every special token is masked, </s> included
MaskLabel_Special(label) ==
    [j \in DOMAIN label |->
        IF label[j] \notin {PadTokenId, EosTokenId} THEN label[j] ELSE IgnoreIndex]

\* [(l if l != tokenizer.pad_token_id else -100) for l in label]
MaskLabel(label) ==
    [j \in DOMAIN label |-> IF label[j] # PadTokenId THEN label[j] ELSE IgnoreIndex]

\* labels["input_ids"] after the "if padding == 'max_length'" block
Labels(label_ids, padding) ==
    IF padding = "max_length"
    THEN [i \in DOMAIN label_ids |-> MaskLabel(label_ids[i])]
    ELSE label_ids

\* faulty variant of preprocess_function: the pad tokens of input_ids are masked too
preprocess_function_MaskInputs(n, sample, padding, max_source_length, max_target_length) ==
    LET model_inputs == tokenizer(inputs(n, sample.text), max_source_length, padding)
        labels       == tokenizer(sample.summary, max_target_length, padding)
    IN  [input_ids      |-> Labels(model_inputs.input_ids, padding),
         attention_mask |-> model_inputs.attention_mask,
         labels         |-> Labels(labels.input_ids, padding)]

preprocess_function(n, sample, padding, max_source_length, max_target_length) ==
    LET model_inputs == tokenizer(inputs(n, sample.text), max_source_length, padding)
        labels       == tokenizer(sample.summary, max_target_length, padding)
    IN  [input_ids      |-> model_inputs.input_ids,
         attention_mask |-> model_inputs.attention_mask,
         labels         |-> Labels(labels.input_ids, padding)]

----------------------------------------------------------------------------
(* The notebooks: code cells in file order *)

\* faulty variant of SingleCells: trainer.train() placed before the trainer cell
SingleCells_TrainBeforeTrainer ==
    <<"install", "git_lfs", "login", "dataset_id", "load_dataset", "show_sample",
      "load_tokenizer", "length_analysis", "preprocess", "load_model", "metrics",
      "data_collator", "train", "trainer", "evaluate", "publish", "inference">>

SingleCells ==
    <<"install", "git_lfs", "login", "dataset_id", "load_dataset", "show_sample",
      "load_tokenizer", "length_analysis", "preprocess", "load_model", "metrics",
      "data_collator", "trainer", "train", "evaluate", "publish", "inference">>

\* faulty variant of DistributedCells: the launch placed before the second save
DistributedCells_LaunchBeforeSaveEval ==
    <<"install", "config", "load_dataset", "prompt_length", "length_analysis",
      "preprocess", "save_train", "launch", "training", "save_eval">>

\* the preprocessing cell is three statements (map, save train, save eval) and the
\* launch cell blocks in "training" until the command returns
DistributedCells ==
    <<"install", "config", "load_dataset", "prompt_length", "length_analysis",
      "preprocess", "save_train", "save_eval", "launch", "training">>

Cells(n) == IF n = "distributed" THEN DistributedCells ELSE SingleCells

\* the position after cell c: the next cell of the notebook, "done" after the last
After(n, c) ==
    LET i == CHOOSE k \in 1..Len(Cells(n)) : Cells(n)[k] = c
    IN  IF i = Len(Cells(n)) THEN "done" ELSE Cells(n)[i + 1]

\* the stage of the pipeline a cell belongs to
Stage(n, c) ==
    CASE c \in {"install", "git_lfs", "login"} -> "setup"
      [] c \in {"config", "dataset_id", "load_dataset", "show_sample"} -> "dataset"
      [] c \in {"load_tokenizer", "prompt_length", "length_analysis"} -> "length_analysis"
      [] c \in {"preprocess", "save_train", "save_eval"} -> "preprocessing"
      [] c = "load_model" -> "model_loading"
      [] c \in {"metrics", "data_collator", "trainer"} -> "trainer_configuration"
      [] c \in {"train", "launch", "training"} -> "training"
      [] c = "evaluate" -> "evaluation"
      [] c = "publish" -> "publication"
      [] c = "inference" -> "inference"
      [] OTHER -> "end"

\* the globals a cell reads that it does not bind itself
CellReads(n, c) ==
    IF n = "distributed"
    THEN CASE c = "load_dataset" -> {"dataset_id", "dataset_config", "model_id"}
           [] c = "prompt_length" -> {"tokenizer", "prompt_template"}
           [] c = "length_analysis" ->
                {"dataset", "tokenizer", "text_column", "summary_column", "max_sample_length"}
           [] c = "preprocess" ->
                {"dataset", "tokenizer", "prompt_template", "text_column", "summary_column",
                 "max_source_length", "max_target_length"}
           [] c = "save_train" -> {"tokenized_dataset", "save_dataset_path"}
           [] c = "save_eval" -> {"tokenized_dataset", "save_dataset_path"}
           [] c = "launch" -> {"model_id", "save_dataset_path", "max_target_length"}
           [] OTHER -> {}
    ELSE CASE c = "load_dataset" -> {"dataset_id"}
           [] c = "show_sample" -> {"dataset"}
           [] c = "length_analysis" -> {"dataset", "tokenizer"}
           [] c = "preprocess" ->
                {"dataset", "tokenizer", "max_source_length", "max_target_length"}
           [] c = "data_collator" -> {"tokenizer", "model"}
           [] c = "trainer" ->
                {"model_id", "dataset_id", "model", "tokenized_dataset", "compute_metrics"}
           [] c = "train" -> {"trainer", "tokenizer", "metric", "postprocess_text"}
           [] c = "evaluate" -> {"trainer", "tokenizer", "metric", "postprocess_text"}
           [] c = "publish" -> {"tokenizer", "repository_id", "trainer"}
           [] c = "inference" -> {"dataset"}
           [] OTHER -> {}

\* running cell c of notebook n binds the globals of `binds` and moves on
Run(n, c, binds) ==
    /\ nb = n
    /\ pc = c
    /\ env' = binds @@ env
    /\ pc' = After(n, c)

\* os.path.join(a, b)
Join(a, b) == <<a, b>>

\* dataset.save_to_disk(path)
SaveToDisk(path, content) ==
    disk' = [p \in DOMAIN disk \cup {path} |-> IF p = path THEN content ELSE disk[p]]

NoCall == [sample |-> Batch(<<>>), padding |-> "none",
           result |-> [input_ids |-> <<>>, attention_mask |-> <<>>, labels |-> <<>>]]
NoProc == [status |-> "none", launches |-> 0, argv |-> <<>>]

Init ==
    /\ nb \in {"single", "distributed"}
    /\ pc = "install"
    /\ env = <<>>
    /\ disk = <<>>
    /\ proc = NoProc
    /\ hub = <<>>
    /\ call = NoCall

----------------------------------------------------------------------------
(* Cells of the distributed notebook *)

\* the install cell binds no global
D_install ==
    /\ Run("distributed", "install", <<>>)
    /\ UNCHANGED <<nb, disk, proc, hub, call>>

D_config ==
    /\ Run("distributed", "config",
           [model_id |-> "google/flan-t5-xxl", dataset_id |-> "cnn_dailymail",
            dataset_config |-> "3.0.0", save_dataset_path |-> "data",
            text_column |-> "article", summary_column |-> "highlights",
            prompt_template |-> [start |-> PromptStart, end |-> PromptEnd]])
    /\ UNCHANGED <<nb, disk, proc, hub, call>>

\* load_dataset and AutoTokenizer.from_pretrained: the corpus is the input
D_load_dataset ==
    /\ nb = "distributed" /\ pc = "load_dataset"
    /\ \E ds \in Corpora("distributed") :
        /\ Run("distributed", "load_dataset",
               [dataset   |-> ds,
                tokenizer |-> [name_or_path |-> env.model_id,
                               model_max_length |-> ModelMaxLength,
                               pad_token_id |-> PadTokenId]])
        /\ UNCHANGED <<nb, disk, proc, hub, call>>

D_prompt_length ==
    /\ Run("distributed", "prompt_length",
           [prompt_lenght |-> PromptLength, max_sample_length |-> MaxSampleLength])
    /\ UNCHANGED <<nb, disk, proc, hub, call>>

D_length_analysis ==
    /\ nb = "distributed" /\ pc = "length_analysis"
    /\ \E m \in MaxTargetLength("distributed", env.dataset) :
        /\ Run("distributed", "length_analysis",
               [max_source_length |-> MaxSourceLength("distributed", env.dataset),
                max_target_length |-> m])
        /\ UNCHANGED <<nb, disk, proc, hub, call>>

\* dataset.map(preprocess_function, batched=True) on the DatasetDict: every
\* split of the dataset is mapped, each split is one batch, processed with the
\* default padding="max_length"
MapDataset(n) ==
    [sp \in DOMAIN env.dataset |->
        preprocess_function(n, Batch(env.dataset[sp]), "max_length",
                            env.max_source_length, env.max_target_length)]

D_preprocess ==
    /\ Run("distributed", "preprocess",
           [preprocess_function |-> "function", tokenized_dataset |-> MapDataset("distributed")])
    /\ UNCHANGED <<nb, disk, proc, hub, call>>

D_save_train ==
    /\ Run("distributed", "save_train", <<>>)
    /\ SaveToDisk(Join(env.save_dataset_path, "train"), env.tokenized_dataset.train)
    /\ UNCHANGED <<nb, proc, hub, call>>

D_save_eval ==
    /\ Run("distributed", "save_eval", <<>>)
    /\ SaveToDisk(Join(env.save_dataset_path, "eval"), env.tokenized_dataset.test)
    /\ UNCHANGED <<nb, proc, hub, call>>

\* faulty variant of CommandLine: the generation length taken from the source side
CommandLine_SourceLength ==
    [program |-> "scripts/run_seq2seq_deepspeed.py",
     num_gpus |-> 8,
     model_id |-> env.model_id,
     dataset_path |-> env.save_dataset_path,
     epochs |-> 3,
     per_device_train_batch_size |-> 8,
     per_device_eval_batch_size |-> 8,
     generation_max_length |-> env.max_source_length,
     lr |-> "1e-4",
     deepspeed |-> "configs/ds_flan_t5_z3_config_bf16.json"]

\* the command line of the !deepspeed cell, $names filled in from the globals
CommandLine ==
    [program |-> "scripts/run_seq2seq_deepspeed.py",
     num_gpus |-> 8,
     model_id |-> env.model_id,
     dataset_path |-> env.save_dataset_path,
     epochs |-> 3,
     per_device_train_batch_size |-> 8,
     per_device_eval_batch_size |-> 8,
     generation_max_length |-> env.max_target_length,
     lr |-> "1e-4",
     deepspeed |-> "configs/ds_flan_t5_z3_config_bf16.json"]

\* the shell command starts; the cell does not return until it ends
D_launch ==
    /\ Run("distributed", "launch", <<>>)
    /\ proc' = [status |-> "running", launches |-> proc.launches + 1, argv |-> CommandLine]
    /\ UNCHANGED <<nb, disk, hub, call>>

\* faulty variant of D_training: a failed command is launched again
D_training_Retry ==
    \E rc \in {"succeeded", "failed"} :
        /\ nb = "distributed"
        /\ pc = "training"
        /\ env' = env
        /\ pc' = IF rc = "failed" THEN "launch" ELSE After("distributed", "training")
        /\ proc' = [proc EXCEPT !.status = rc]
        /\ UNCHANGED <<nb, disk, hub, call>>

\* the command ends, with or without success, and the cell returns
D_training ==
    \E rc \in {"succeeded", "failed"} :
        /\ Run("distributed", "training", <<>>)
        /\ proc' = [proc EXCEPT !.status = rc]
        /\ UNCHANGED <<nb, disk, hub, call>>

----------------------------------------------------------------------------
(* Cells of the single-accelerator notebook *)

S_install ==
    /\ Run("single", "install", <<>>)
    /\ UNCHANGED <<nb, disk, proc, hub, call>>

S_git_lfs ==
    /\ Run("single", "git_lfs", <<>>)
    /\ UNCHANGED <<nb, disk, proc, hub, call>>

\* notebook_login()
S_login ==
    /\ Run("single", "login", <<>>)
    /\ UNCHANGED <<nb, disk, proc, hub, call>>

S_dataset_id ==
    /\ Run("single", "dataset_id", [dataset_id |-> "samsum"])
    /\ UNCHANGED <<nb, disk, proc, hub, call>>

\* load_dataset(dataset_id): the corpus is the input
S_load_dataset ==
    /\ nb = "single" /\ pc = "load_dataset"
    /\ \E ds \in Corpora("single") :
        /\ Run("single", "load_dataset", [dataset |-> ds])
        /\ UNCHANGED <<nb, disk, proc, hub, call>>

\* sample = dataset['train'][randrange(len(dataset["train"]))]
S_show_sample ==
    /\ nb = "single" /\ pc = "show_sample"
    /\ \E i \in DOMAIN env.dataset.train :
        /\ Run("single", "show_sample", [sample |-> env.dataset.train[i]])
        /\ UNCHANGED <<nb, disk, proc, hub, call>>

S_load_tokenizer ==
    /\ Run("single", "load_tokenizer",
           [model_id  |-> "google/flan-t5-base",
            tokenizer |-> [name_or_path |-> "google/flan-t5-base",
                           model_max_length |-> ModelMaxLength,
                           pad_token_id |-> PadTokenId]])
    /\ UNCHANGED <<nb, disk, proc, hub, call>>

S_length_analysis ==
    /\ nb = "single" /\ pc = "length_analysis"
    /\ \E m \in MaxTargetLength("single", env.dataset) :
        /\ Run("single", "length_analysis",
               [max_source_length |-> MaxSourceLength("single", env.dataset),
                max_target_length |-> m])
        /\ UNCHANGED <<nb, disk, proc, hub, call>>

S_preprocess ==
    /\ Run("single", "preprocess",
           [preprocess_function |-> "function", tokenized_dataset |-> MapDataset("single")])
    /\ UNCHANGED <<nb, disk, proc, hub, call>>

S_load_model ==
    /\ Run("single", "load_model",
           [model_id |-> "google/flan-t5-base",
            model    |-> [name_or_path |-> "google/flan-t5-base", trained |-> FALSE]])
    /\ UNCHANGED <<nb, disk, proc, hub, call>>

S_metrics ==
    /\ Run("single", "metrics",
           [metric |-> "rouge", postprocess_text |-> "function", compute_metrics |-> "function"])
    /\ UNCHANGED <<nb, disk, proc, hub, call>>

S_data_collator ==
    /\ Run("single", "data_collator",
           [label_pad_token_id |-> IgnoreIndex,
            data_collator |-> [kind |-> "DataCollatorForSeq2Seq",
                               tokenizer |-> "tokenizer", model |-> "model",
                               label_pad_token_id |-> IgnoreIndex, pad_to_multiple_of |-> 8]])
    /\ UNCHANGED <<nb, disk, proc, hub, call>>

\* repository_id = f"{model_id.split('/')[1]}-{dataset_id}"
RepositoryId(model_id, dataset_id) ==
    IF model_id = "google/flan-t5-base" /\ dataset_id = "samsum"
    THEN "flan-t5-base-samsum"
    ELSE "other"

\* variant: the training arguments switch the hub integration on
TrainingArguments_PushToHub(repository_id) ==
    [output_dir |-> repository_id,
     per_device_train_batch_size |-> 8,
     per_device_eval_batch_size |-> 8,
     predict_with_generate |-> TRUE,
     fp16 |-> FALSE,
     learning_rate |-> "5e-5",
     num_train_epochs |-> 5,
     logging_dir |-> Join(repository_id, "logs"),
     logging_strategy |-> "steps",
     logging_steps |-> 500,
     evaluation_strategy |-> "epoch",
     save_strategy |-> "epoch",
     save_total_limit |-> 2,
     load_best_model_at_end |-> TRUE,
     report_to |-> "tensorboard",
     push_to_hub |-> TRUE,
     hub_strategy |-> "every_save",
     hub_model_id |-> repository_id]

\* variant: the training arguments ask for fp16 mixed precision
TrainingArguments_Fp16(repository_id) ==
    [output_dir |-> repository_id,
     per_device_train_batch_size |-> 8,
     per_device_eval_batch_size |-> 8,
     predict_with_generate |-> TRUE,
     fp16 |-> TRUE,
     learning_rate |-> "5e-5",
     num_train_epochs |-> 5,
     logging_dir |-> Join(repository_id, "logs"),
     logging_strategy |-> "steps",
     logging_steps |-> 500,
     evaluation_strategy |-> "epoch",
     save_strategy |-> "epoch",
     save_total_limit |-> 2,
     load_best_model_at_end |-> TRUE,
     report_to |-> "tensorboard",
     push_to_hub |-> FALSE,
     hub_strategy |-> "every_save",
     hub_model_id |-> repository_id]

TrainingArguments(repository_id) ==
    [output_dir |-> repository_id,
     per_device_train_batch_size |-> 8,
     per_device_eval_batch_size |-> 8,
     predict_with_generate |-> TRUE,
     fp16 |-> FALSE,
     learning_rate |-> "5e-5",
     num_train_epochs |-> 5,
     logging_dir |-> Join(repository_id, "logs"),
     logging_strategy |-> "steps",
     logging_steps |-> 500,
     evaluation_strategy |-> "epoch",
     save_strategy |-> "epoch",
     save_total_limit |-> 2,
     load_best_model_at_end |-> TRUE,
     report_to |-> "tensorboard",
     push_to_hub |-> FALSE,
     hub_strategy |-> "every_save",
     hub_model_id |-> repository_id]

\* the data_collator argument of the trainer when none is given
NoCollator == [kind |-> "None"]

\* Trainer.__init__ without a tokenizer: a missing data_collator becomes the
\* library's default_data_collator, which stacks the rows as they are
Seq2SeqTrainer(model, args, train_dataset, eval_dataset, compute_metrics, data_collator) ==
    [model |-> model,
     args |-> args,
     train_dataset |-> train_dataset,
     eval_dataset |-> eval_dataset,
     compute_metrics |-> compute_metrics,
     data_collator |-> IF data_collator.kind = "None"
                       THEN [kind |-> "default_data_collator"]
                       ELSE data_collator,
     state |-> [log |-> <<>>, metrics |-> <<>>]]

\* the trainer is built from model, args, the two splits and compute_metrics
S_trainer ==
    /\ Run("single", "trainer",
           [repository_id |-> RepositoryId(env.model_id, env.dataset_id),
            training_args |-> TrainingArguments(RepositoryId(env.model_id, env.dataset_id)),
            trainer |-> Seq2SeqTrainer("model",
                                       TrainingArguments(RepositoryId(env.model_id, env.dataset_id)),
                                       "train", "test", "compute_metrics", NoCollator)])
    /\ UNCHANGED <<nb, disk, proc, hub, call>>

\* variant of Unmask: the labels are handed on as they are
Unmask_Skipped(label_ids) == label_ids

\* np.where(labels != -100, labels, tokenizer.pad_token_id)
Unmask(label_ids) ==
    [i \in DOMAIN label_ids |->
        [j \in DOMAIN label_ids[i] |->
            IF label_ids[i][j] # IgnoreIndex THEN label_ids[i][j] ELSE PadTokenId]]

\* what stands for the failure of decoding an id that is no token id
DecodeError == <<-1>>

\* tokenizer.batch_decode(ids, skip_special_tokens=True): the text of a row is
\* its ordinary tokens; an id below 0 cannot be decoded
batch_decode(ids) ==
    [i \in DOMAIN ids |->
        IF \E j \in DOMAIN ids[i] : ids[i][j] < 0
        THEN DecodeError
        ELSE SelectSeq(ids[i], LAMBDA t : t \notin {PadTokenId, EosTokenId})]

\* compute_metrics, the label side: what is handed to batch_decode and what
\* comes back (the text post-processing is postprocess_text, below)
compute_metrics(label_ids) ==
    [decode_input   |-> Unmask(label_ids),
     decoded_labels |-> batch_decode(Unmask(label_ids))]

\* one epoch of trainer.train(): training batches, evaluation, checkpoint
\* (save_strategy="epoch") and, with push_to_hub, a push of that save
EpochLog(t, k) ==
    <<[event |-> "train_batches", epoch |-> k, by |-> t.data_collator.kind],
      [event |-> "evaluate", epoch |-> k, by |-> t.data_collator.kind]>>
    \o (IF t.args.save_strategy = "epoch"
        THEN <<[event |-> "checkpoint", epoch |-> k, by |-> "trainer"]>>
        ELSE <<>>)
    \o (IF t.args.save_strategy = "epoch" /\ t.args.push_to_hub
        THEN <<[event |-> "push", epoch |-> k, by |-> "trainer"]>>
        ELSE <<>>)

RECURSIVE TrainLog(_, _)
TrainLog(t, k) == IF k = 0 THEN <<>> ELSE TrainLog(t, k - 1) \o EpochLog(t, k)

\* the pushes of the checkpoints made during training: the output directory
\* then holds the model files only
TrainPushes(t, model) ==
    SelectSeq([i \in DOMAIN TrainLog(t, t.args.num_train_epochs) |->
                  [repo  |-> t.args.hub_model_id,
                   files |-> {Join(t.args.output_dir, "model")},
                   model |-> model,
                   event |-> TrainLog(t, t.args.num_train_epochs)[i].event]],
              LAMBDA c : c.event = "push")

\* the directory of the checkpoint saved at the end of epoch k
CheckpointDir(t, k) == <<t.args.output_dir, "checkpoint", k>>

\* the checkpoints left in the output directory when training ends, best being
\* the epoch of the best evaluation: save_total_limit=2 with
\* load_best_model_at_end keeps the best checkpoint and the last one, or the
\* last two when the last one is the best
KeptCheckpoints(t, best) ==
    IF best = t.args.num_train_epochs
    THEN {k \in 1..t.args.num_train_epochs : k > t.args.num_train_epochs - t.args.save_total_limit}
    ELSE {best, t.args.num_train_epochs}

\* the output directory after trainer.train(): the kept checkpoints and the
\* tensorboard logs under logging_dir
TrainedDisk(t, best) ==
    LET paths == {CheckpointDir(t, k) : k \in KeptCheckpoints(t, best)} \cup {t.args.logging_dir}
    IN  [p \in DOMAIN disk \cup paths |->
            IF p = t.args.logging_dir THEN "tensorboard events"
            ELSE IF p \in paths THEN [checkpoint |-> p[3], best |-> p[3] = best]
            ELSE disk[p]]

\* trainer.train(): returns when the model is trained; which epoch evaluates
\* best is an outcome of the training
S_train ==
    /\ nb = "single" /\ pc = "train"
    /\ \E best \in 1..env.trainer.args.num_train_epochs :
          disk' = TrainedDisk(env.trainer, best)
    /\ Run("single", "train",
           [model   |-> [env.model EXCEPT !.trained = TRUE],
            trainer |-> [env.trainer EXCEPT
                            !.state.log = TrainLog(env.trainer, env.trainer.args.num_train_epochs),
                            !.state.metrics =
                                compute_metrics(env.tokenized_dataset[env.trainer.eval_dataset].labels)]])
    /\ hub' = hub \o TrainPushes(env.trainer, [env.model EXCEPT !.trained = TRUE])
    /\ UNCHANGED <<nb, proc, call>>

\* trainer.evaluate(): the evaluation split is run once more and compute_metrics
\* is called on its labels; the metrics are displayed
S_evaluate ==
    /\ Run("single", "evaluate",
           [trainer |-> [env.trainer EXCEPT
                            !.state.log = Append(env.trainer.state.log,
                                                 [event |-> "evaluate",
                                                  epoch |-> env.trainer.args.num_train_epochs,
                                                  by |-> env.trainer.data_collator.kind]),
                            !.state.metrics =
                                compute_metrics(env.tokenized_dataset[env.trainer.eval_dataset].labels)]])
    /\ UNCHANGED <<nb, disk, proc, hub, call>>

\* the files the publish cell leaves in the output directory before the push
PublishedDisk ==
    LET dir   == env.trainer.args.output_dir
        files == {Join(dir, "tokenizer"), Join(dir, "README.md"), Join(dir, "model")}
    IN  [p \in DOMAIN disk \cup files |->
            CASE p = Join(dir, "tokenizer") -> env.tokenizer
              [] p = Join(dir, "README.md") -> "model card"
              [] p = Join(dir, "model")     -> env.model
              [] OTHER                      -> disk[p]]

\* tokenizer.save_pretrained(repository_id); trainer.create_model_card();
\* trainer.push_to_hub() saves the model and pushes the output directory, the
\* checkpoint directories left out (the trainer's .gitignore of checkpoint-*/)
S_publish ==
    /\ Run("single", "publish", <<>>)
    /\ disk' = PublishedDisk
    /\ hub' = Append(hub, [repo  |-> env.trainer.args.hub_model_id,
                           files |-> {p \in DOMAIN PublishedDisk :
                                         /\ p[1] = env.trainer.args.output_dir
                                         /\ p[2] # "checkpoint"},
                           model |-> env.model,
                           event |-> "push_to_hub"])
    /\ UNCHANGED <<nb, proc, call>>

\* pipeline("summarization", model="philschmid/flan-t5-base-samsum") on a
\* random test example
S_inference ==
    /\ nb = "single" /\ pc = "inference"
    /\ \E i \in DOMAIN env.dataset.test :
        /\ Run("single", "inference",
               [summarizer |-> "philschmid/flan-t5-base-samsum",
                sample |-> env.dataset.test[i],
                res |-> "summary_text"])
        /\ UNCHANGED <<nb, disk, proc, hub, call>>

----------------------------------------------------------------------------
(* Specifications *)

Next ==
    \/ D_install \/ D_config \/ D_load_dataset \/ D_prompt_length
    \/ D_length_analysis \/ D_preprocess \/ D_save_train \/ D_save_eval
    \/ D_launch \/ D_training
    \/ S_install \/ S_git_lfs \/ S_login \/ S_dataset_id \/ S_load_dataset
    \/ S_show_sample \/ S_load_tokenizer \/ S_length_analysis \/ S_preprocess
    \/ S_load_model \/ S_metrics \/ S_data_collator \/ S_trainer \/ S_train
    \/ S_evaluate \/ S_publish \/ S_inference

\* a run of either notebook, top to bottom
Spec == Init /\ [][Next]_vars

\* preprocess_function called directly, after the length analysis, on the
\* corpus as one batch and with any padding mode
CallPreprocess ==
    \E p \in PaddingModes :
        /\ pc = "preprocess"
        /\ pc' = "returned"
        /\ call' = [sample  |-> Batch(concatenate_datasets(env.dataset)),
                    padding |-> p,
                    result  |-> preprocess_function(nb, Batch(concatenate_datasets(env.dataset)), p,
                                                   env.max_source_length, env.max_target_length)]
        /\ UNCHANGED <<nb, env, disk, proc, hub>>

NextPre ==
    \/ D_install \/ D_config \/ D_load_dataset \/ D_prompt_length \/ D_length_analysis
    \/ S_install \/ S_git_lfs \/ S_login \/ S_dataset_id \/ S_load_dataset
    \/ S_show_sample \/ S_load_tokenizer \/ S_length_analysis
    \/ CallPreprocess

SpecPre == Init /\ [][NextPre]_vars

----------------------------------------------------------------------------
(* preprocess_function: the returned batch against the tokenizer's output *)

Returned == pc = "returned"

\* what the tokenizer produced for the inputs and for the targets of the call
TokenizedInputs ==
    tokenizer(inputs(nb, call.sample.text), env.max_source_length, call.padding)
TokenizedTargets ==
    tokenizer(call.sample.summary, env.max_target_length, call.padding)

Rows == DOMAIN call.result.labels

\* C1: with padding="max_length" the sentinel -100 stands at every position of
\* the labels where the tokenizer produced the pad token id, no pad token id is
\* left in the labels, and input_ids and attention_mask are returned exactly as
\* the tokenizer produced them, so they never hold -100.
C1_SentinelReplacesPadInLabelsOnly ==
    (Returned /\ call.padding = "max_length") =>
        /\ call.result.input_ids = TokenizedInputs.input_ids
        /\ call.result.attention_mask = TokenizedInputs.attention_mask
        /\ DOMAIN call.result.input_ids = DOMAIN call.sample.text
        /\ Rows = DOMAIN call.sample.summary
        /\ \A i \in Rows :
              /\ DOMAIN call.result.labels[i] = DOMAIN TokenizedTargets.input_ids[i]
              /\ \A j \in DOMAIN call.result.labels[i] :
                    (TokenizedTargets.input_ids[i][j] = PadTokenId)
                        <=> (call.result.labels[i][j] = IgnoreIndex)
              /\ PadTokenId \notin Range(call.result.labels[i])
              /\ IgnoreIndex \notin Range(call.result.input_ids[i])
              /\ IgnoreIndex \notin Range(call.result.attention_mask[i])

\* a max_length call whose labels hold the sentinel and whose input_ids hold pad tokens
C1_Witness ==
    /\ Returned /\ call.padding = "max_length"
    /\ \E i \in Rows : IgnoreIndex \in Range(call.result.labels[i])
    /\ \E i \in Rows : PadTokenId \in Range(call.result.input_ids[i])

\* C2: in every returned label sequence a position holds -100 only where the
\* tokenizer emitted the pad token, and every position where the tokenizer
\* emitted another token, the closing </s> included, keeps that token id.
C2_SentinelOnlyAtPadPositions ==
    Returned =>
        \A i \in Rows :
            /\ \A j \in DOMAIN call.result.labels[i] :
                  /\ call.result.labels[i][j] = IgnoreIndex
                        => TokenizedTargets.input_ids[i][j] = PadTokenId
                  /\ TokenizedTargets.input_ids[i][j] # PadTokenId
                        => call.result.labels[i][j] = TokenizedTargets.input_ids[i][j]
            /\ EosTokenId \in Range(call.result.labels[i])

\* a label row with the sentinel, an ordinary target token and the closing </s>
C2_Witness ==
    /\ Returned
    /\ \E i \in Rows :
          /\ IgnoreIndex \in Range(call.result.labels[i])
          /\ EosTokenId \in Range(call.result.labels[i])
          /\ \E j \in DOMAIN call.result.labels[i] : call.result.labels[i][j] = SumToken(j)

\* C3: in every padding mode each input_ids row is at most max_source_length
\* long and each labels row at most max_target_length; a text whose ids (with
\* the closing </s>) exceed the maximum comes back exactly that long.
C3_LengthAtMostMaximum ==
    Returned =>
        /\ \A i \in DOMAIN call.result.input_ids :
              /\ Len(call.result.input_ids[i]) <= env.max_source_length
              /\ Len(inputs(nb, call.sample.text)[i]) + 1 > env.max_source_length
                    => Len(call.result.input_ids[i]) = env.max_source_length
        /\ \A i \in Rows :
              /\ Len(call.result.labels[i]) <= env.max_target_length
              /\ Len(call.sample.summary[i]) + 1 > env.max_target_length
                    => Len(call.result.labels[i]) = env.max_target_length

\* a call without max_length padding in which a source and a target were truncated
C3_Witness ==
    /\ Returned /\ call.padding # "max_length"
    /\ \E i \in Rows : Len(inputs(nb, call.sample.text)[i]) + 1 > env.max_source_length
    /\ \E i \in Rows : Len(call.sample.summary[i]) + 1 > env.max_target_length

----------------------------------------------------------------------------
(* The notebook runs *)

Tokenized == "tokenized_dataset" \in DOMAIN env
Splits == {"train", "test"}

\* C4: with the default padding="max_length" the padded length is consistent
\* within a batch and across batches: in every mapped split, every input_ids
\* row and every attention_mask row has exactly max_source_length entries and
\* every labels row has exactly max_target_length entries, whatever the
\* lengths of the raw texts of the batch.
C4_PaddedLengthConsistent ==
    Tokenized =>
        \A sp \in DOMAIN env.tokenized_dataset :
            /\ DOMAIN env.tokenized_dataset[sp].input_ids = DOMAIN env.dataset[sp]
            /\ \A i \in DOMAIN env.dataset[sp] :
                /\ Len(env.tokenized_dataset[sp].input_ids[i]) = env.max_source_length
                /\ Len(env.tokenized_dataset[sp].attention_mask[i]) = env.max_source_length
                /\ Len(env.tokenized_dataset[sp].labels[i]) = env.max_target_length

\* a tokenized corpus with three splits whose train batch holds two rows of
\* different raw lengths: one shorter than both maxima, which is padded, and
\* one that reaches both maxima, which is not
C4_Witness ==
    /\ Tokenized
    /\ DOMAIN env.tokenized_dataset = {"train", "validation", "test"}
    /\ \E i, j \in DOMAIN env.dataset.train :
        /\ Len(inputs(nb, <<env.dataset.train[i].text>>)[1]) + 1 < env.max_source_length
        /\ Len(env.dataset.train[i].summary) + 1 < env.max_target_length
        /\ Len(inputs(nb, <<env.dataset.train[j].text>>)[1]) + 1 >= env.max_source_length
        /\ Len(env.dataset.train[j].summary) + 1 >= env.max_target_length
        /\ Len(env.tokenized_dataset.train.input_ids[i])
              = Len(env.tokenized_dataset.train.input_ids[j])
        /\ Len(env.tokenized_dataset.train.labels[i])
              = Len(env.tokenized_dataset.train.labels[j])

\* C5: in the distributed notebook max_sample_length is model_max_length minus
\* the prompt length, max_source_length is at most max_sample_length, and every
\* tokenized prompt-wrapped input has at most model_max_length tokens.
C5_PromptedInputWithinModelLimit ==
    (nb = "distributed" /\ Tokenized) =>
        /\ env.max_sample_length = env.tokenizer.model_max_length - env.prompt_lenght
        /\ env.max_source_length <= env.max_sample_length
        /\ \A sp \in Splits : \A i \in DOMAIN env.tokenized_dataset[sp].input_ids :
              Len(env.tokenized_dataset[sp].input_ids[i]) <= env.tokenizer.model_max_length

\* a document whose prompt-wrapped text is longer than the model's maximum
C5_Witness ==
    /\ nb = "distributed" /\ Tokenized
    /\ Len(prompt_template(env.dataset.train[1].text)) + 1 > env.tokenizer.model_max_length

\* the ids of the model input that are not padding
Unpadded(ids, mask) == SubSeq(ids, 1, Cardinality({j \in DOMAIN mask : mask[j] = 1}))

\* C6: in the distributed notebook, for every document of at most
\* max_sample_length tokens the model input holds the complete template and
\* all of the document's tokens: prefix, document, "Summary:" part, </s>.
C6_DocumentFitsTemplate ==
    (nb = "distributed" /\ Tokenized) =>
        \A sp \in Splits : \A i \in DOMAIN env.dataset[sp] :
            TokenizedLength(env.dataset[sp][i].text) <= env.max_sample_length
                => Unpadded(env.tokenized_dataset[sp].input_ids[i],
                            env.tokenized_dataset[sp].attention_mask[i])
                      = prompt_template(env.dataset[sp][i].text) \o <<EosTokenId>>

\* the order of the stages of a run
StageOrder ==
    <<"setup", "dataset", "length_analysis", "preprocessing", "model_loading",
      "trainer_configuration", "training", "evaluation", "publication", "inference", "end">>
StageRank(st) == CHOOSE k \in 1..Len(StageOrder) : StageOrder[k] = st

\* C7: the cell about to run reads only globals that the cells before it have
\* bound, and the stage of the run never goes back: setup, dataset, length
\* analysis, preprocessing, model loading, trainer configuration, training,
\* evaluation, publication, inference.
C7_StagesInOrder ==
    /\ [](CellReads(nb, pc) \subseteq DOMAIN env)
    /\ [][StageRank(Stage(nb, pc')) >= StageRank(Stage(nb, pc))]_vars

\* a finished run of the single-accelerator notebook, every stage behind it
C7_Witness ==
    /\ nb = "single" /\ pc = "done"
    /\ env.model.trained
    /\ Len(hub) = 1

Launched == proc.status # "none"

\* C8: the train split is saved under <save_dataset_path>/train and the test
\* split under <save_dataset_path>/eval, two different directories; when the
\* training command has been launched both hold the complete tokenized split
\* and --dataset_path is save_dataset_path.
C8_DatasetSavedBeforeTraining ==
    Launched =>
        /\ proc.argv.dataset_path = env.save_dataset_path
        /\ Join(proc.argv.dataset_path, "train") # Join(proc.argv.dataset_path, "eval")
        /\ {Join(proc.argv.dataset_path, "train"), Join(proc.argv.dataset_path, "eval")}
              \subseteq DOMAIN disk
        /\ disk[Join(proc.argv.dataset_path, "train")] = env.tokenized_dataset.train
        /\ disk[Join(proc.argv.dataset_path, "eval")] = env.tokenized_dataset.test

\* the training command is running on a saved dataset whose two splits differ
C8_Witness ==
    /\ proc.status = "running"
    /\ DOMAIN disk = {Join("data", "train"), Join("data", "eval")}
    /\ disk[Join("data", "train")] # disk[Join("data", "eval")]

\* C9: the training command is launched at most once, exactly once in a
\* finished run whether it succeeded or failed, and while it is running the
\* notebook stays in the launch cell.
C9_SingleBlockingLaunch ==
    /\ proc.launches <= 1
    /\ proc.status = "running" => pc = "training"
    /\ (nb = "distributed" /\ pc = "done")
          => (proc.launches = 1 /\ proc.status \in {"succeeded", "failed"})
    /\ pc \in {"launch", "training"} => proc.launches = (IF pc = "launch" THEN 0 ELSE 1)

\* a finished run whose training command failed
C9_Witness ==
    /\ nb = "distributed" /\ pc = "done"
    /\ proc.status = "failed"

\* C10: the launched command line carries the eight flags, --model_id is
\* model_id, --dataset_path is save_dataset_path, and --generation_max_length
\* is the max_target_length of the length analysis, the length of every
\* labels row of the tokenized dataset.
C10_CommandLineValues ==
    Launched =>
        /\ {"model_id", "dataset_path", "epochs", "per_device_train_batch_size",
            "per_device_eval_batch_size", "generation_max_length", "lr", "deepspeed"}
              \subseteq DOMAIN proc.argv
        /\ proc.argv.model_id = env.model_id
        /\ proc.argv.dataset_path = env.save_dataset_path
        /\ proc.argv.generation_max_length = env.max_target_length
        /\ env.max_target_length \in MaxTargetLength(nb, env.dataset)
        /\ \A sp \in Splits : \A i \in DOMAIN env.tokenized_dataset[sp].labels :
              Len(env.tokenized_dataset[sp].labels[i]) = proc.argv.generation_max_length

\* a launched command whose generation length truncated one summary and
\* padded the other, and differs from max_source_length
C10_Witness ==
    /\ Launched
    /\ proc.argv.generation_max_length # env.max_source_length
    /\ Len(env.dataset.train[1].summary) + 1 > proc.argv.generation_max_length
    /\ Len(env.dataset.test[1].summary) + 1 < proc.argv.generation_max_length

-----------------------------------------------------------------------------
\* Numeric precision of a training run

\* precision of a run of the Trainer under these arguments: fp16 mixed
\* precision when fp16 is set, full precision otherwise (bf16 is not passed)
ArgsPrecision(args) == IF args.fp16 THEN "fp16" ELSE "fp32"

\* the four settings documents of the distributed notebook and the precision
\* each of them stands for: the two bf16 documents, the two without bf16
SettingsPrecision ==
    [doc \in {"configs/ds_flan_t5_z3_config.json",
              "configs/ds_flan_t5_z3_config_bf16.json",
              "configs/ds_flan_t5_z3_offload.json",
              "configs/ds_flan_t5_z3_offload_bf16.json"} |->
        IF doc \in {"configs/ds_flan_t5_z3_config_bf16.json",
                    "configs/ds_flan_t5_z3_offload_bf16.json"}
        THEN "bf16" ELSE "fp32"]

\* C11: no training run uses fp16. Whenever the single-accelerator notebook
\* holds training arguments or a trainer, their precision is full precision
\* (fp16 = False); whenever the distributed notebook has launched the training
\* command, the settings document on its command line is one of the notebook's
\* documents and it is the bf16 one. The precision is fp32 or bf16, never fp16.
C11_NeverFp16 ==
    /\ "training_args" \in DOMAIN env =>
          /\ ~env.training_args.fp16
          /\ ArgsPrecision(env.training_args) = "fp32"
    /\ "trainer" \in DOMAIN env =>
          /\ env.trainer.args = env.training_args
          /\ ArgsPrecision(env.trainer.args) \in {"fp32", "bf16"}
    /\ Launched =>
          /\ proc.argv.deepspeed \in DOMAIN SettingsPrecision
          /\ SettingsPrecision[proc.argv.deepspeed] = "bf16"

C11_Witness ==
    /\ nb = "single"
    /\ "trainer" \in DOMAIN env
    /\ env.model.trained
    /\ ~env.trainer.args.fp16
    /\ ArgsPrecision(env.trainer.args) = "fp32"

-----------------------------------------------------------------------------
\* preprocess_function as a mapping over a batch

\* the result of preprocess_function on example i of the call's batch alone
Alone(i) ==
    preprocess_function(nb,
                        [text    |-> <<call.sample.text[i]>>,
                         summary |-> <<call.sample.summary[i]>>],
                        call.padding, env.max_source_length, env.max_target_length)

\* C12: preprocess_function is a stateless mapping over a batch. A call leaves
\* the notebook's globals, the disk, the hub and the launched process as they
\* were and its input batch is still the rows of the dataset; with
\* padding="max_length" the result has one row per input example, in the same
\* order, and row i is what the function returns for example i alone, so that
\* processing the batch equals processing each example alone and concatenating.
C12_BatchIsRowwise ==
    /\ [](Returned =>
            /\ call.sample = Batch(concatenate_datasets(env.dataset))
            /\ call.padding = "max_length" =>
                  /\ DOMAIN call.result.input_ids = DOMAIN call.sample.text
                  /\ DOMAIN call.result.attention_mask = DOMAIN call.sample.text
                  /\ DOMAIN call.result.labels = DOMAIN call.sample.text
                  /\ \A i \in DOMAIN call.sample.text :
                        /\ <<call.result.input_ids[i]>> = Alone(i).input_ids
                        /\ <<call.result.attention_mask[i]>> = Alone(i).attention_mask
                        /\ <<call.result.labels[i]>> = Alone(i).labels)
    /\ [][pc' = "returned" =>
            /\ env' = env /\ disk' = disk /\ hub' = hub /\ proc' = proc /\ nb' = nb
            /\ call'.sample = Batch(concatenate_datasets(env.dataset))]_vars

\* a max_length call on two examples of different lengths, the shorter one
\* padded in both columns
C12_Witness ==
    /\ Returned /\ call.padding = "max_length"
    /\ Len(call.sample.text) = 2
    /\ Len(call.sample.text[1]) # Len(call.sample.text[2])
    /\ Len(call.sample.summary[1]) # Len(call.sample.summary[2])
    /\ \E i \in Rows : PadTokenId \in Range(call.result.input_ids[i])
    /\ \E i \in Rows : IgnoreIndex \in Range(call.result.labels[i])
    /\ call.result.input_ids[1] # call.result.input_ids[2]

-----------------------------------------------------------------------------
\* Length analysis

Analysed == "max_source_length" \in DOMAIN env

\* tokenized lengths of one column over both splits of the loaded dataset
ColumnLengths(column) ==
    UNION {{Len(Encode(env.dataset[sp][i][column], env.tokenizer.model_max_length)) :
               i \in DOMAIN env.dataset[sp]} : sp \in Splits}

\* C13: the length analysis runs over train and test together. In the
\* single-accelerator notebook max_source_length and max_target_length are the
\* maxima of the tokenized dialogue and summary lengths; in the distributed
\* notebook max_source_length is the smaller of the maximum tokenized article
\* length and max_sample_length. In both notebooks the two lengths are at
\* least 1 and at most the tokenizer's model_max_length.
C13_LengthAnalysis ==
    Analysed =>
        /\ nb = "single" =>
              /\ env.max_source_length \in ColumnLengths("text")
              /\ \A n \in ColumnLengths("text") : n <= env.max_source_length
              /\ env.max_target_length \in ColumnLengths("summary")
              /\ \A n \in ColumnLengths("summary") : n <= env.max_target_length
        /\ nb = "distributed" =>
              /\ env.max_source_length <= env.max_sample_length
              /\ \/ /\ env.max_source_length \in ColumnLengths("text")
                    /\ \A n \in ColumnLengths("text") : n <= env.max_source_length
                 \/ /\ env.max_source_length = env.max_sample_length
                    /\ \E n \in ColumnLengths("text") : n >= env.max_sample_length
        /\ env.max_source_length >= 1
        /\ env.max_source_length <= env.tokenizer.model_max_length
        /\ env.max_target_length >= 1
        /\ env.max_target_length <= env.tokenizer.model_max_length

\* single-accelerator analysis done on a corpus whose longest dialogue and
\* longest summary are in the test split, the dialogue being cut at
\* model_max_length by the analysis
C13_Witness ==
    /\ nb = "single" /\ Analysed
    /\ Len(env.dataset.test[1].text) > Len(env.dataset.train[1].text)
    /\ Len(env.dataset.test[1].summary) > Len(env.dataset.train[1].summary)
    /\ Len(env.dataset.test[1].text) + 1 > env.tokenizer.model_max_length
    /\ env.max_source_length = env.tokenizer.model_max_length

-----------------------------------------------------------------------------
\* Trainer: batches, checkpoints, pushes

\* the events of the trainer's log in which batches are fed to the model
BatchEvents ==
    {i \in DOMAIN env.trainer.state.log :
        env.trainer.state.log[i].event \in {"train_batches", "evaluate"}}

\* C14: the DataCollatorForSeq2Seq created before training (label_pad_token_id
\* = -100, pad_to_multiple_of = 8) takes care of the padding: every batch the
\* trainer feeds to the model during train() and evaluate() is assembled by it.
C14_BatchesByCreatedCollator ==
    (nb = "single" /\ "trainer" \in DOMAIN env) =>
        \A i \in BatchEvents :
            env.trainer.state.log[i].by = env.data_collator.kind


\* the checkpoint saves of the trainer's log
CheckpointEvents ==
    {i \in DOMAIN env.trainer.state.log : env.trainer.state.log[i].event = "checkpoint"}

\* C15: the hub integration pushes the checkpoints during training. Once
\* trainer.train() has returned it has saved one checkpoint per epoch, and
\* every checkpoint save is followed, before the end of training, by a push of
\* that save to the hub repository repository_id.
C15_CheckpointsPushedDuringTraining ==
    (nb = "single" /\ "trainer" \in DOMAIN env /\ env.model.trained) =>
        /\ Cardinality(CheckpointEvents) = env.trainer.args.num_train_epochs
        /\ \A i \in CheckpointEvents :
              \E j \in DOMAIN env.trainer.state.log :
                  /\ j > i
                  /\ env.trainer.state.log[j].event = "push"
                  /\ env.trainer.state.log[j].epoch = env.trainer.state.log[i].epoch
        /\ \E k \in DOMAIN hub :
              hub[k].event = "push" /\ hub[k].repo = env.repository_id


\* the final evaluation: an evaluation logged after the last checkpoint of training
FinalEvaluationDone ==
    \E i \in DOMAIN env.trainer.state.log :
        /\ env.trainer.state.log[i].event = "evaluate"
        /\ \A j \in CheckpointEvents : j < i
        /\ Cardinality(CheckpointEvents) = env.trainer.args.num_train_epochs

\* C16: in the single-accelerator notebook nothing reaches the hub before
\* training and the final evaluation are done, and what is pushed holds the
\* model and the tokenizer: every push is made from the trained model, to
\* repository_id, which is the trainer's output_dir, and the pushed files
\* include the tokenizer files and the model card written before the push.
C16_PublishAfterTrainingWithTokenizer ==
    (nb = "single" /\ Len(hub) > 0) =>
        /\ env.model.trained
        /\ FinalEvaluationDone
        /\ env.trainer.args.output_dir = env.repository_id
        /\ \A k \in DOMAIN hub :
              /\ hub[k].repo = env.repository_id
              /\ hub[k].model.trained
              /\ hub[k].model = disk[Join(env.repository_id, "model")]
              /\ Join(env.repository_id, "tokenizer") \in hub[k].files
              /\ Join(env.repository_id, "README.md") \in hub[k].files
              /\ Join(env.repository_id, "model") \in hub[k].files
              /\ hub[k].files \subseteq DOMAIN disk
        /\ disk[Join(env.repository_id, "tokenizer")] = env.tokenizer

\* the trained and evaluated model has been pushed, with its tokenizer
C16_Witness ==
    /\ nb = "single" /\ Len(hub) = 1
    /\ hub[1].event = "push_to_hub"
    /\ hub[1].model.trained
    /\ Join(env.repository_id, "tokenizer") \in hub[1].files
    /\ FinalEvaluationDone

-----------------------------------------------------------------------------
(* Text post-processing of the metric (postprocess_text): texts are sequences
   of characters; "w" stands for a character of a word, "." for the
   punctuation that ends a sentence, " " and "\n" are whitespace *)

Whitespace == {" ", "\n"}
Chars == {"w", ".", " "}
Texts == UNION {[1..n -> Chars] : n \in 0..MaxTextLen}

\* the smallest index of a set of positions
MinOf(S) == CHOOSE x \in S : \A y \in S : x <= y

\* str.lstrip()
lstrip(s) ==
    IF \A i \in DOMAIN s : s[i] \in Whitespace
    THEN <<>>
    ELSE SubSeq(s, MinOf({i \in DOMAIN s : s[i] \notin Whitespace}), Len(s))

\* variant of strip: whitespace removed on the left only
strip_LeftOnly(s) == lstrip(s)

\* str.strip()
strip(s) ==
    IF \A i \in DOMAIN s : s[i] \in Whitespace
    THEN <<>>
    ELSE SubSeq(s, MinOf({i \in DOMAIN s : s[i] \notin Whitespace}),
                   Max({i \in DOMAIN s : s[i] \notin Whitespace}))

\* the positions of a text at which a sentence can end before the end of the
\* text: a "." that whitespace follows, with more text after it
SentenceEndCandidates(s) ==
    {i \in 1..(Len(s) - 1) :
        /\ s[i] = "." /\ s[i + 1] \in Whitespace
        /\ \E k \in (i + 2)..Len(s) : s[k] \notin Whitespace}

\* nltk sent_tokenize. Which of the candidate periods end a sentence is
\* decided by the punkt model (a period that closes an abbreviation, an
\* initial or an ellipsis ends none, depending on the words around it): ends
\* is the set of positions punkt takes for sentence ends. The whitespace
\* between two sentences belongs to neither; no text, no sentence
RECURSIVE sent_tokenize(_, _)
sent_tokenize(s, ends) ==
    IF lstrip(s) = <<>> THEN <<>>
    ELSE IF ends \cap SentenceEndCandidates(s) = {} THEN <<s>>
    ELSE LET e    == MinOf(ends \cap SentenceEndCandidates(s))
             rest == SubSeq(s, e + 1, Len(s))
             skip == Len(rest) - Len(lstrip(rest))
         IN  <<SubSeq(s, 1, e)>>
             \o sent_tokenize(lstrip(rest), {i - e - skip : i \in {x \in ends : x > e}})

\* the sentence ends the punkt model finds in a text
PunktEnds(punkt, s) == IF s \in DOMAIN punkt THEN punkt[s] ELSE {}

\* "\n".join(sentences)
RECURSIVE NewlineJoin(_)
NewlineJoin(sentences) ==
    IF sentences = <<>> THEN <<>>
    ELSE IF Len(sentences) = 1 THEN sentences[1]
    ELSE sentences[1] \o <<"\n">> \o NewlineJoin(Tail(sentences))

\* postprocess_text(preds, labels) under the downloaded punkt model: returns
\* the pair (preds, labels)
postprocess_text(preds, labels, punkt) ==
    <<[i \in DOMAIN preds |->
          NewlineJoin(sent_tokenize(strip(preds[i]), PunktEnds(punkt, strip(preds[i]))))],
      [i \in DOMAIN labels |->
          NewlineJoin(sent_tokenize(strip(labels[i]), PunktEnds(punkt, strip(labels[i]))))]>>

\* a call of postprocess_text on two decoded predictions and two decoded
\* references, with any decision of the punkt model on the sentence ends of
\* the texts it is asked about
InitPost ==
    /\ nb = "single"
    /\ pc = "postprocess"
    /\ env = <<>>
    /\ disk = <<>>
    /\ proc = NoProc
    /\ hub = <<>>
    /\ \E a \in Texts, b \in Texts :
          \E pa \in SUBSET SentenceEndCandidates(strip(a)),
             pb \in SUBSET SentenceEndCandidates(strip(b)) :
              /\ strip(a) = strip(b) => pa = pb
              /\ call = [preds  |-> <<a, b>>,
                         labels |-> <<b, a>>,
                         punkt  |-> [t \in {strip(a), strip(b)} |->
                                        IF t = strip(a) THEN pa ELSE pb],
                         result |-> <<>>]

CallPostprocess ==
    /\ pc = "postprocess"
    /\ pc' = "postprocessed"
    /\ call' = [call EXCEPT !.result = postprocess_text(call.preds, call.labels, call.punkt)]
    /\ UNCHANGED <<nb, env, disk, proc, hub>>

NextPost == CallPostprocess

SpecPost == InitPost /\ [][NextPost]_vars

Postprocessed == pc = "postprocessed"

\* the characters of a text that are not whitespace, in order
Ink(s) == SelectSeq(s, LAMBDA c : c \notin Whitespace)

\* a text with every run of whitespace made one blank
RECURSIVE Squash(_)
Squash(s) ==
    IF s = <<>> THEN <<>>
    ELSE IF Head(s) \in Whitespace THEN <<" ">> \o Squash(lstrip(s))
    ELSE <<Head(s)>> \o Squash(Tail(s))

\* the blanks of the stripped text that do not follow a sentence end of `ends`
BlanksInSentences(s, ends) ==
    {j \in DOMAIN s :
        /\ s[j] = " "
        /\ ~\E e \in ends : e < j /\ \A m \in (e + 1)..j : s[m] = " "}

\* out is what in is once stripped and its sentences joined by one newline:
\* no whitespace at either end, the same text up to the length of the
\* whitespace runs, one newline for each sentence end, each directly after
\* the "." and directly before the next sentence, the blanks inside the
\* sentences kept; a text of one sentence is the stripped text
Cleaned(in, out, ends) ==
    /\ out = <<>> \/ (out[1] \notin Whitespace /\ out[Len(out)] \notin Whitespace)
    /\ Ink(out) = Ink(in)
    /\ Squash(out) = Squash(strip(in))
    /\ Cardinality({j \in DOMAIN out : out[j] = "\n"}) = Cardinality(ends)
    /\ \A j \in DOMAIN out :
          out[j] = "\n" => (j > 1 /\ out[j - 1] = "." /\ j < Len(out)
                            /\ out[j + 1] \notin Whitespace)
    /\ Cardinality({j \in DOMAIN out : out[j] = " "})
          = Cardinality(BlanksInSentences(strip(in), ends))
    /\ ends = {} => out = strip(in)

\* C17: postprocess_text(preds, labels) returns two lists of the lengths of
\* its arguments, in their order: the i-th returned prediction is made from
\* the i-th prediction and the i-th returned reference from the i-th
\* reference. Each returned text is the input stripped of leading and
\* trailing whitespace with its sentences, as the punkt model finds them,
\* joined by a single newline; an empty or whitespace-only text becomes the
\* empty text.
C17_PostprocessText ==
    Postprocessed =>
        /\ Len(call.result) = 2
        /\ DOMAIN call.result[1] = DOMAIN call.preds
        /\ DOMAIN call.result[2] = DOMAIN call.labels
        /\ \A i \in DOMAIN call.preds :
              /\ Cleaned(call.preds[i], call.result[1][i], call.punkt[strip(call.preds[i])])
              /\ Ink(call.preds[i]) = <<>> => call.result[1][i] = <<>>
        /\ \A i \in DOMAIN call.labels :
              /\ Cleaned(call.labels[i], call.result[2][i], call.punkt[strip(call.labels[i])])
              /\ Ink(call.labels[i]) = <<>> => call.result[2][i] = <<>>

\* a call whose first prediction is two sentences for the punkt model and
\* whose second prediction is whitespace only
C17_Witness ==
    /\ Postprocessed
    /\ call.preds[1] = <<"w", ".", " ", "w">>
    /\ call.punkt[<<"w", ".", " ", "w">>] = {2}
    /\ call.result[1][1] = <<"w", ".", "\n", "w">>
    /\ call.preds[2] = <<" ", " ">>
    /\ call.result[1][2] = <<>>
    /\ call.result[2] = <<<<>>, <<"w", ".", "\n", "w">>>>

-----------------------------------------------------------------------------
\* The 95th percentile as maximum target length

\* the summaries the length analysis reads: every row of train and of test,
\* as (split, row) pairs
SummaryRows == UNION {{<<sp, i>> : i \in DOMAIN env.dataset[sp]} : sp \in Splits}
\* the length the analysis records for a summary: its tokenized length, capped
\* at model_max_length by truncation=True
SummaryLength(r) ==
    Len(Encode(env.dataset[r[1]][r[2]].summary, env.tokenizer.model_max_length))
\* the number of tokens of a summary: its own tokens and the closing </s>
FullLength(r) == Len(env.dataset[r[1]][r[2]].summary) + 1

\* the k-th smallest recorded length: the least length that at least k of the
\* recorded lengths do not exceed
OrderStatistic(k) ==
    MinOf({v \in {SummaryLength(r) : r \in SummaryRows} :
              Cardinality({r \in SummaryRows : SummaryLength(r) <= v}) >= k})

\* the rank 0.95 * (n - 1) of the 95th percentile, in hundredths, the recorded
\* lengths at the two closest ranks, and the interpolated value in hundredths
Rank100 == 95 * (Cardinality(SummaryRows) - 1)
Below == OrderStatistic(Rank100 \div 100 + 1)
Above == OrderStatistic(Min2(Rank100 \div 100 + 2, Cardinality(SummaryRows)))
Interpolated100 == 100 * Below + (Rank100 % 100) * (Above - Below)

\* the summaries whose recorded length is at most max_target_length
Fitting == {r \in SummaryRows : SummaryLength(r) <= env.max_target_length}
\* the summaries that have at most max_target_length tokens
FittingInFull == {r \in SummaryRows : FullLength(r) <= env.max_target_length}

\* max_target_length is the 95th percentile of the summary lengths, linearly
\* interpolated between the closest ranks and truncated to an integer
IsTruncatedPercentile95 ==
    /\ 100 * env.max_target_length <= Interpolated100
    /\ Interpolated100 < 100 * (env.max_target_length + 1)

\* max_target_length is that percentile as floating point computes it: the
\* truncated interpolated value, or one less when the interpolated value is a
\* whole number between two different lengths
IsFloatPercentile95 ==
    \/ IsTruncatedPercentile95
    \/ /\ Rank100 % 100 # 0
       /\ Below < Above
       /\ Interpolated100 = 100 * (env.max_target_length + 1)

\* the label row of a summary is the whole summary and </s>, padded, when the
\* summary has at most max_target_length tokens, and its first
\* max_target_length - 1 tokens and </s> when it has more
EncodedByLength ==
    \A r \in SummaryRows :
        LET summary == env.dataset[r[1]][r[2]].summary
            row     == Unmask(env.tokenized_dataset[r[1]].labels)[r[2]]
        IN  /\ r \in FittingInFull =>
                  row = PadTo(summary \o <<EosTokenId>>, env.max_target_length)
            /\ r \notin FittingInFull =>
                  /\ Len(row) = env.max_target_length
                  /\ row = SubSeq(summary, 1, env.max_target_length - 1) \o <<EosTokenId>>

\* C18 as stated: max_target_length is the truncated 95th percentile of the
\* summary lengths over train and test, so that at least 95% of the summaries
\* have at most max_target_length tokens and are encoded without truncation,
\* and every longer summary is cut to exactly max_target_length tokens.
C18_AtLeast95PercentFit ==
    (nb = "distributed" /\ Tokenized) =>
        /\ IsTruncatedPercentile95
        /\ 100 * Cardinality(FittingInFull) >= 95 * Cardinality(SummaryRows)
        /\ EncodedByLength

\* C18, amended: max_target_length is the 95th percentile of the summary
\* lengths recorded over train and test (tokenized lengths capped at
\* model_max_length), interpolated in floating point and truncated: it lies
\* between the recorded lengths at the two ranks around 0.95 * (n - 1), below
\* the upper one when they differ and the rank is fractional, and is the
\* truncated interpolated value or, when that value is a whole number, possibly
\* one less. Of the n summaries at least floor(0.95 * (n - 1)) + 1 have a
\* recorded length of at most max_target_length, which can be fewer than 95%
\* of them. A summary is encoded as labels without truncation exactly when it
\* has at most max_target_length tokens, which a summary longer than
\* model_max_length never has; every other summary is cut to exactly
\* max_target_length tokens.
C18_RankManyFit ==
    (nb = "distributed" /\ Tokenized) =>
        /\ IsFloatPercentile95
        /\ Below <= env.max_target_length
        /\ env.max_target_length <= Above
        /\ (Below < Above /\ Rank100 % 100 # 0) => env.max_target_length < Above
        /\ Cardinality(Fitting) >= Rank100 \div 100 + 1
        /\ FittingInFull \subseteq Fitting
        /\ \A r \in SummaryRows :
              FullLength(r) > env.tokenizer.model_max_length => r \notin FittingInFull
        /\ EncodedByLength

\* the largest corpus, with two summaries longer than model_max_length: the
\* bound floor(0.95 * (n - 1)) + 1 is n - 2, exactly that many summaries fit,
\* which is fewer than 95% of them, and the two long ones are cut
C18_Witness ==
    /\ nb = "distributed" /\ Tokenized
    /\ Cardinality(SummaryRows) = BigRows
    /\ Rank100 \div 100 + 1 = BigRows - 2
    /\ Cardinality(Fitting) = BigRows - 2
    /\ Cardinality(FittingInFull) = BigRows - 2
    /\ 100 * Cardinality(Fitting) < 95 * BigRows
    /\ \E r \in SummaryRows :
        /\ FullLength(r) > env.tokenizer.model_max_length
        /\ env.max_target_length < SummaryLength(r)
        /\ Len(env.tokenized_dataset[r[1]].labels[r[2]]) = env.max_target_length

-----------------------------------------------------------------------------
\* Label masking and the metric

\* the padded token ids the tokenizer produces for the summaries of a split,
\* before preprocess_function masks them
TokenizedSummaries(sp) ==
    tokenizer(Batch(env.dataset[sp]).summary, env.max_target_length, "max_length").input_ids

Evaluated == nb = "single" /\ "trainer" \in DOMAIN env /\ env.model.trained

\* C19: label masking round-trips. Replacing -100 by the pad token id, as
\* compute_metrics does, turns every label sequence that preprocess_function
\* produced back into the padded token ids the tokenizer had produced; what
\* compute_metrics hands to batch_decode for the evaluation split is those
\* ids, holds no -100, and decodes to the text the unmasked labels decode to.
C19_MaskingRoundTrips ==
    Evaluated =>
        /\ \A sp \in Splits :
              Unmask(env.tokenized_dataset[sp].labels) = TokenizedSummaries(sp)
        /\ env.trainer.state.metrics.decode_input
              = TokenizedSummaries(env.trainer.eval_dataset)
        /\ \A i \in DOMAIN env.trainer.state.metrics.decode_input :
              IgnoreIndex \notin Range(env.trainer.state.metrics.decode_input[i])
        /\ env.trainer.state.metrics.decoded_labels
              = batch_decode(TokenizedSummaries(env.trainer.eval_dataset))
        /\ \A i \in DOMAIN env.trainer.state.metrics.decoded_labels :
              env.trainer.state.metrics.decoded_labels[i] # DecodeError

\* the evaluation labels held -100 and compute_metrics has replaced it
C19_Witness ==
    /\ Evaluated
    /\ IgnoreIndex \in Range(env.tokenized_dataset.test.labels[1])
    /\ PadTokenId \in Range(env.trainer.state.metrics.decode_input[1])
    /\ env.trainer.state.metrics.decoded_labels[1] # <<>>
    /\ env.trainer.state.metrics.decoded_labels[1] # DecodeError

=============================================================================
